---------------------------- MODULE Spec2Model ----------------------------
(***************************************************************************)
(* A model of src/script.js, the Asteroids game: the toroidal geometry     *)
(* (wrap, sphereCollides), the entity constructors, fillAsteroids, init,   *)
(* the key handlers and the frame handler update.                          *)
(*                                                                         *)
(* Numbers.  The program computes in floating point; the model computes on *)
(* a grid:                                                                 *)
(*   - lengths are in tenths of a pixel (Px(n) is n pixels),               *)
(*   - times are in milliseconds (deltaTime of the source is in seconds:   *)
(*     a product with deltaTime is divided by 1000 here),                  *)
(*   - velocities are in tenths of a pixel per second,                     *)
(*   - angles are in units of pi/40 (the rotation of a 25 ms frame), and   *)
(*     cos and sin are tabulated times 1000,                               *)
(*   - Math.random() yields k/64, k in 0..63, the next value of a fixed    *)
(*     sequence (a tape); a behaviour picks its tape at the start.         *)
(* A quotient is rounded towards zero, so that -(a/b) = (-a)/b as in the   *)
(* program's arithmetic.                                                   *)
(***************************************************************************)
EXTENDS Integers, Sequences, FiniteSets, TLC

VARIABLES
    deltaTime,      \* seconds since the previous frame (here ms); -1 s right after init()
    _elapsedTime,   \* the previous frame's timestamp (ms), or Undefined
    invincibility,  \* remaining immunity (ms)
    input,          \* the flags left, right, up, down, fire and the snapshots _fire, _down
    score, lives, level, playing,
    player,         \* [x, y, vx, vy, dir]
    bullets,        \* sequence of [x, y, vx, vy, _x, _y, remove, id]
    asteroids,      \* sequence of [x, y, radius, vx, vy]
    tape, rnd,      \* Math.random(): the tape of its values and the index of the next one
    nextId,         \* history: the number of bullets created so far (bullet identities)
    log,            \* history: what the last step did
    env,            \* the environment: its scenario, the position in the scenario's
                    \* opening script, and the frames and key events spent after it
    call            \* the last call of a pure function (specification SpecFn)

vars == <<deltaTime, _elapsedTime, invincibility, input, score, lives, level,
          playing, player, bullets, asteroids, tape, rnd, nextId, log, env, call>>

-----------------------------------------------------------------------------
(* Units and arithmetic *)

Px(n) == n * 10

Abs(a) == IF a < 0 THEN -a ELSE a

\* the real quotient a/b rounded towards zero (b > 0)
Quot(a, b) == IF a >= 0 THEN a \div b ELSE -((-a) \div b)

\* a % b of JavaScript: the remainder has the sign of the dividend
Rem(a, b) == a - b * Quot(a, b)

\* v * deltaTime, deltaTime in ms
TimesDt(v, dt) == Quot(v * dt, 1000)

\* sin(k*pi/40) * 1000 for k = 0..20
SinQ ==
    <<0, 78, 156, 233, 309, 383, 454, 522, 588, 649, 707,
      760, 809, 853, 891, 924, 951, 972, 988, 997, 1000>>

\* Math.sin(u), u in units of pi/40, times 1000
Sin(u) ==
    LET m == u % 80
    IN  IF m <= 20 THEN SinQ[m + 1]
        ELSE IF m <= 40 THEN SinQ[40 - m + 1]
        ELSE IF m <= 60 THEN -SinQ[m - 40 + 1]
        ELSE -SinQ[80 - m + 1]

\* Math.cos(u), u in units of pi/40, times 1000
Cos(u) == Sin(u + 20)

\* c * len for a cosine or sine c (times 1000)
Trig(c, len) == Quot(c * len, 1000)

\* Math.atan2(dy, dx) in units of pi/40, in -39..40: the tabulated direction
\* on which (dx, dy) has the largest projection; atan2(0, 0) = 0
Proj(u, dy, dx) == dx * Cos(u) + dy * Sin(u)

Atan2(dy, dx) ==
    IF dx = 0 /\ dy = 0 THEN 0
    ELSE CHOOSE u \in -39..40 :
            \A w \in -39..40 :
                \/ Proj(u, dy, dx) > Proj(w, dy, dx)
                \/ Proj(u, dy, dx) = Proj(w, dy, dx) /\ Abs(u) <= Abs(w)

-----------------------------------------------------------------------------
(* Program constants (script.js lines 105-131) *)

WORLD == Px(256)            \* the 256 of wrap and of the placement and teleport draws
PLAYER_LENGTH == Px(10)
PLAYER_SPEED == Px(150)
PLAYER_ANGLE == 10          \* Math.PI / 4, in units of pi/40
BULLET_SPEED == 50
ASTEROID_SPEED == Px(23)
INVINCIBLE_TIME == 3000     \* invincibility = 3 (seconds)
START_LIVES == 3
BASE_ASTEROIDS == 10        \* fillAsteroids places 10 + level*2
SPLIT_RADIUS == Px(5)       \* an asteroid of radius > 5 splits
SUBSTEPS == 20              \* sub-samples of a bullet's segment
HIT_SCORE == 10

-----------------------------------------------------------------------------
(* Toroidal geometry *)

\* function wrap(x), lines 41-44
wrap(x) == Rem(x + WORLD, WORLD)

\* one axis of sphereCollides, lines 58-61
axisDist(a, b) ==
    LET d == Abs(b - a)
    IN  IF d > Px(128) THEN Px(255) - d ELSE d

\* function sphereCollides(x1,y1,r1,x2,y2,r2), lines 56-63
sphereCollides(x1, y1, r1, x2, y2, r2) ==
    LET x == axisDist(x1, x2)
        y == axisDist(y1, y2)
    IN  x * x + y * y <= (r1 + r2) * (r1 + r2)

\* function lerp(x,y,a), lines 153-156, with a = k/SUBSTEPS
lerp(x, y, k) == Quot(k * x + (SUBSTEPS - k) * y, SUBSTEPS)

\* function clamp(x), lines 163-168
clamp(x) == IF x < 0 THEN 0 ELSE IF x > Px(255) THEN Px(255) ELSE x

-----------------------------------------------------------------------------
(* The environment: scenarios *)

\* An event of the host: a key goes down or up, or a frame is due gap ms
\* after the previous one.
KeyDown(key) == [type |-> "keydown", key |-> key, gap |-> 0]
KeyUp(key) == [type |-> "keyup", key |-> key, gap |-> 0]
Frame(gap) == [type |-> "frame", key |-> "", gap |-> gap]

\* The five values fillAsteroids draws for an asteroid it places at once:
\* the position (4*kx, 4*ky) pixels, the radius 14 + 6*kr/64 and the
\* velocity 23*(2*kv/64 - 1) on each axis; Still is the draw of velocity 0.
Still == 8 * 4
Rock(kx, ky, kr, kvx, kvy) == <<kx, ky, kr, kvx, kvy>>

\* Ten drifting asteroids around the start position.  The first candidate
\* (128,128) falls in the player's zone and the candidate (68,132) on the
\* first asteroid: both are drawn again.
DriftField ==
    <<32, 32>> \o
    Rock(16, 32, 32, 63, Still) \o Rock(48, 32, 0, 0, Still) \o
    <<17, 33>> \o
    Rock(32, 16, 32, Still, 63) \o Rock(32, 48, 63, Still, 16) \o
    Rock(16, 16, 0, 48, 48) \o Rock(48, 48, 32, 16, 16) \o
    Rock(16, 48, 16, 40, 24) \o Rock(48, 16, 48, 24, 40) \o
    Rock(0, 0, 0, 63, 63) \o Rock(0, 32, 32, 0, 0)

\* Ten asteroids at rest, none on the player's line of fire (y = 128): the
\* first, of radius 14 at (64,64), and the second, of radius 19.9 at
\* (100,64), leave a gap in which the player touches both.
StillField ==
    Rock(16, 16, 0, Still, Still) \o Rock(25, 16, 63, Still, Still) \o
    Rock(48, 8, 32, Still, Still) \o Rock(56, 24, 32, Still, Still) \o
    Rock(8, 40, 32, Still, Still) \o Rock(20, 48, 32, Still, Still) \o
    Rock(32, 56, 32, Still, Still) \o Rock(44, 48, 32, Still, Still) \o
    Rock(56, 40, 32, Still, Still) \o Rock(4, 24, 32, Still, Still)

\* A scenario is a tape of Math.random() values and an opening script, the
\* events the host delivers first; after the script the host is free, within
\* MaxFrames frames and MaxKeys key events.

\* the host is free from the start
Open ==
    [tape |-> DriftField \o <<16, 32, 5, 40, 20, 3, 50, 11, 32, 29, 61>>,
     script |-> <<>>]

\* the player turns left
Turning ==
    [tape |-> DriftField \o <<16, 32, 5, 40, 20, 3, 50, 11, 32, 29, 61>>,
     script |-> <<KeyDown("ArrowLeft")>>]

\* the player teleports to (84,64), between the first two asteroids, and
\* loses two lives there, 3 s apart
LastLife ==
    [tape |-> StillField \o <<21, 16>>,
     script |-> <<KeyDown("ArrowDown"), Frame(25), Frame(25), Frame(3000)>>]

\* two bullets are in flight, fired 50 ms apart
TwoBullets ==
    [tape |-> StillField \o <<21, 16>>,
     script |-> <<KeyDown("z"), Frame(25), KeyUp("z"), Frame(25),
                  KeyDown("z"), Frame(25)>>]

\* Ten asteroids of radius 14 at rest on a ring of radius 72 around the
\* start position, 36 degrees apart.
RingField ==
    Rock(50, 32, 0, Still, Still) \o Rock(47, 21, 0, Still, Still) \o
    Rock(38, 15, 0, Still, Still) \o Rock(26, 15, 0, Still, Still) \o
    Rock(17, 21, 0, Still, Still) \o Rock(14, 32, 0, Still, Still) \o
    Rock(17, 43, 0, Still, Still) \o Rock(26, 49, 0, Still, Still) \o
    Rock(38, 49, 0, Still, Still) \o Rock(47, 43, 0, Still, Still)

\* the six values the two children of a split draw: both get the least
\* radius, 0.35 of the parent's
SmallChildren == <<0, Still, Still, 0, Still, Still>>

RECURSIVE Times(_, _)
Times(n, seq) == IF n = 0 THEN <<>> ELSE seq \o Times(n - 1, seq)

\* one shot: fire is pressed for the frame that comes gap ms after the last
\* one and released for the next two frames, 25 ms each
Shot(gap) == <<KeyDown("z"), Frame(gap), KeyUp("z"), Frame(25), Frame(25)>>

RECURSIVE Volley(_)
Volley(gaps) ==
    IF gaps = <<>> THEN <<>> ELSE Shot(Head(gaps)) \o Volley(Tail(gaps))

\* The player turns left all along, 4.5 degrees per 25 ms.  A first turn of
\* shots, 36 degrees apart, splits the ten asteroids; a second turn shoots
\* the two children of each, 4.5 degrees to either side.  The last bullet is
\* one frame away from the last asteroid when the script ends; the tape then
\* holds the twelve asteroids of level 1.
Clear ==
    [tape |-> RingField \o Times(10, SmallChildren) \o StillField \o
              Rock(36, 4, 32, Still, Still) \o Rock(4, 56, 32, Still, Still),
     script |-> <<KeyDown("ArrowLeft")>> \o
                Volley(<<25>> \o Times(9, <<150>>) \o <<125, 10>> \o
                       Times(9, <<100, 10>>))]

\* The field at rest with its first asteroid, of radius 19.9, at (160,4),
\* 4 pixels from the upper edge.
EdgeField ==
    Rock(40, 1, 63, Still, Still) \o SubSeq(StillField, 6, Len(StillField))

\* the player teleports to (96,4) and fires to the right, along the upper
\* edge, at the first asteroid
Edge ==
    [tape |-> EdgeField \o <<24, 1>> \o SmallChildren,
     script |-> <<KeyDown("ArrowDown"), Frame(25), KeyDown("z"), Frame(25)>>]

\* The ring with its first asteroid, at (200,128) on the player's line of
\* fire, of radius 19.9.
LineField ==
    Rock(50, 32, 63, Still, Still) \o SubSeq(RingField, 6, Len(RingField))

\* the six values the two children of a split draw: both get the greatest
\* radius, 0.995 of half the parent's
BigChildren == <<63, Still, Still, 63, Still, Still>>

\* Four shots to the right: the first splits the asteroid at (200,128), the
\* second and the third split its two children, which still reach the line
\* of fire, and the fourth hits a grandchild.
Lineage ==
    [tape |-> LineField \o Times(3, BigChildren),
     script |-> Volley(<<25, 25, 25, 25>>)]

Scenarios == <<Open, Turning, LastLife, TwoBullets, Clear, Edge, Lineage>>

-----------------------------------------------------------------------------
(* Math.random() *)

\* Math.random() returns k/RandUnit for the tape's next k
RandUnit == 8 * 8

\* The state of the program as one record s, so that a handler is an operator
\* from records to records; State is the current state.
State ==
    [deltaTime |-> deltaTime, _elapsedTime |-> _elapsedTime,
     invincibility |-> invincibility, input |-> input, score |-> score,
     lives |-> lives, level |-> level, playing |-> playing, player |-> player,
     bullets |-> bullets, asteroids |-> asteroids, tape |-> tape, rnd |-> rnd,
     nextId |-> nextId, log |-> log]

\* the n-th next value of Math.random() (n = 0 for the next one), and the
\* state after n calls; the tape is read in a cycle
TapeAt(s, n) == s.tape[((s.rnd - 1 + n) % Len(s.tape)) + 1]
Advance(s, n) == [s EXCEPT !.rnd = ((@ - 1 + n) % Len(s.tape)) + 1]

\* Math.random() * 256
RandomCoord(k) == Quot(k * WORLD, RandUnit)

-----------------------------------------------------------------------------
(* Entities *)

\* a faulty Asteroid, for the sensitivity of C5: the radius is not drawn but
\* is the radius given
AsteroidOfFullRadius(x, y, radius, k1, k2, k3) ==
    [x |-> x, y |-> y,
     radius |-> radius,
     vx |-> Quot((2 * k2 - RandUnit) * ASTEROID_SPEED, RandUnit),
     vy |-> Quot((2 * k3 - RandUnit) * ASTEROID_SPEED, RandUnit)]

\* function Asteroid(x, y, radius), lines 8-15; k1, k2, k3 are its three
\* Math.random() values
Asteroid(x, y, radius, k1, k2, k3) ==
    [x |-> x, y |-> y,
     radius |-> Quot(7 * radius * RandUnit + 3 * radius * k1, 10 * RandUnit),
     vx |-> Quot((2 * k2 - RandUnit) * ASTEROID_SPEED, RandUnit),
     vy |-> Quot((2 * k3 - RandUnit) * ASTEROID_SPEED, RandUnit)]

\* new Asteroid(x, y, radius) in state s: the asteroid and the state after
\* its three draws
NewAsteroid(s, x, y, radius) ==
    [a |-> Asteroid(x, y, radius, TapeAt(s, 0), TapeAt(s, 1), TapeAt(s, 2)),
     s |-> Advance(s, 3)]

\* function Bullet(x, y, angle), lines 25-34 (remove is undefined, falsy,
\* until line 315 sets it); id is the history identity
Bullet(x, y, angle, id) ==
    [x |-> x, y |-> y,
     vx |-> Trig(Cos(angle), Px(BULLET_SPEED)),
     vy |-> -Trig(Sin(angle), Px(BULLET_SPEED)),
     _x |-> x, _y |-> y, remove |-> FALSE, id |-> id]

-----------------------------------------------------------------------------
(* fillAsteroids, lines 68-90 *)

\* a faulty Rejected, for the sensitivity of C9: the player's zone is not
\* tested
RejectedByAsteroids(s, i, x, y) ==
    \E j \in 1..i :
        sphereCollides(x, y, Px(20), s.asteroids[j].x, s.asteroids[j].y,
                       s.asteroids[j].radius)

\* lines 78-86: the candidate (x, y) collides with one of asteroids[0..i-1]
\* or with the zone of radius 30 around the player
Rejected(s, i, x, y) ==
    \/ \E j \in 1..i :
          sphereCollides(x, y, Px(20), s.asteroids[j].x, s.asteroids[j].y,
                         s.asteroids[j].radius)
    \/ sphereCollides(s.player.x, s.player.y, Px(30), x, y, Px(20))

\* line 88: asteroids.push(n.a)
Push(n) == [n.s EXCEPT !.asteroids = Append(@, n.a)]

\* lines 74-88: the while loop of iteration i (PlaceAsteroid draws a
\* candidate, TryPlace tests it), then the push
RECURSIVE PlaceAsteroid(_, _)
RECURSIVE TryPlace(_, _, _, _)
TryPlace(s, i, x, y) ==
    IF Rejected(s, i, x, y)
    THEN PlaceAsteroid(s, i)
    ELSE Push(NewAsteroid(s, x, y, Px(20)))

PlaceAsteroid(s, i) ==
    TryPlace(Advance(s, 2), i, RandomCoord(TapeAt(s, 0)),
             RandomCoord(TapeAt(s, 1)))

\* line 70: the for loop from iteration i on
RECURSIVE FillFrom(_, _)
FillFrom(s, i) ==
    IF i < BASE_ASTEROIDS + s.level * 2
    THEN FillFrom(PlaceAsteroid(s, i), i + 1)
    ELSE s

\* history: the result of a call of fillAsteroids
LogFill(t) ==
    [t EXCEPT !.log.fills =
        Append(@, [level |-> t.level, asteroids |-> t.asteroids,
                   px |-> t.player.x, py |-> t.player.y])]

\* function fillAsteroids()
fillAsteroids(s) == LogFill(FillFrom(s, 0))

-----------------------------------------------------------------------------
(* init, lines 95-133 *)

NoInput ==
    [left |-> FALSE, right |-> FALSE, up |-> FALSE, down |-> FALSE,
     fire |-> FALSE, _fire |-> FALSE, _down |-> FALSE]

\* The history of a step: its kind, the number of lives the frame took, the
\* asteroid pairs it bounced, the bullet hits it scored, the calls of
\* fillAsteroids it made and the bullets it tested and advanced.
EmptyLog(kind) ==
    [kind |-> kind, playerHits |-> 0, bumps |-> <<>>, hits |-> <<>>,
     fills |-> <<>>, tested |-> <<>>, advanced |-> <<>>]

\* a faulty init, for the sensitivity of C7: invincibility is not set anew
initKeepingInvincibility(s) ==
    fillAsteroids(
        [s EXCEPT !.deltaTime = -1000,
                  !.input = NoInput,
                  !.score = 0,
                  !.lives = START_LIVES,
                  !.level = 0,
                  !.playing = TRUE,
                  !.player = [x |-> Px(128), y |-> Px(128), vx |-> 0, vy |-> 0,
                              dir |-> 0],
                  !.bullets = <<>>,
                  !.asteroids = <<>>])

\* function init(): every global but _elapsedTime is set anew; input = []
\* leaves the five flags undefined (falsy)
init(s) ==
    fillAsteroids(
        [s EXCEPT !.deltaTime = -1000,
                  !.invincibility = 0,
                  !.input = NoInput,
                  !.score = 0,
                  !.lives = START_LIVES,
                  !.level = 0,
                  !.playing = TRUE,
                  !.player = [x |-> Px(128), y |-> Px(128), vx |-> 0, vy |-> 0,
                              dir |-> 0],
                  !.bullets = <<>>,
                  !.asteroids = <<>>])

-----------------------------------------------------------------------------
(* update, lines 175-352: the asteroid loop, lines 207-261 *)

PI == 40                    \* Math.PI, in units of pi/40

\* the least element of a non-empty set of numbers
Least(S) == CHOOSE j \in S : \A k \in S : j <= k

\* lines 202-205: the two tips of the player's silhouette
Tips(p) ==
    [x1 |-> p.x - Trig(Cos(p.dir + PLAYER_ANGLE \div 2), PLAYER_LENGTH),
     y1 |-> p.y + Trig(Sin(p.dir + PLAYER_ANGLE \div 2), PLAYER_LENGTH),
     x2 |-> p.x - Trig(Cos(p.dir - PLAYER_ANGLE \div 2), PLAYER_LENGTH),
     y2 |-> p.y + Trig(Sin(p.dir - PLAYER_ANGLE \div 2), PLAYER_LENGTH)]

\* a faulty ElasticOf, for the sensitivity of C12: the two asteroids exchange
\* their velocities, as if their masses were equal
ElasticOfEqualMasses(a, b, m1, m2) ==
    [v1x |-> b.vx, v1y |-> b.vy, v2x |-> a.vx, v2y |-> a.vy]

\* lines 227-237: the velocities of asteroids a (scanning) and b (its
\* partner) after their elastic collision, masses m1 and m2
ElasticOf(a, b, m1, m2) ==
    [v1x |-> Quot((m1 - m2) * a.vx + 2 * m2 * b.vx, m1 + m2),
     v1y |-> Quot((m1 - m2) * a.vy + 2 * m2 * b.vy, m1 + m2),
     v2x |-> Quot(2 * m1 * a.vx + (m2 - m1) * b.vx, m1 + m2),
     v2y |-> Quot(2 * m1 * a.vy + (m2 - m1) * b.vy, m1 + m2)]

\* lines 227-228: the masses are the squares of the radii
Elastic(a, b) == ElasticOf(a, b, a.radius * a.radius, b.radius * b.radius)

\* a faulty Partners, for the sensitivity of C15: the test i != j of line 221
\* is left out
PartnersWithSelf(as, i) ==
    {j \in 1..Len(as) :
        sphereCollides(as[i].x, as[i].y, as[i].radius,
                       as[j].x, as[j].y, as[j].radius)}

\* lines 219-242: the partners asteroid i collides with
Partners(as, i) ==
    {j \in 1..Len(as) :
        /\ j # i
        /\ sphereCollides(as[i].x, as[i].y, as[i].radius,
                          as[j].x, as[j].y, as[j].radius)}

\* lines 233-248: asteroid i, moved by (x, y), takes the velocities v with
\* its partner j and steps back
Rebound(s, moved, i, j, v, x, y) ==
    [s EXCEPT
        !.asteroids =
            [moved EXCEPT ![i].vx = v.v1x, ![i].vy = v.v1y,
                          ![j].vx = v.v2x, ![j].vy = v.v2y,
                          ![i].x = wrap(@ - x), ![i].y = wrap(@ - y)],
        !.log.bumps =
            Append(@, [i |-> i, j |-> j, a |-> moved[i], b |-> moved[j],
                       v |-> v, among |-> moved])]

\* lines 219-249: the first partner in index order, if any, is bounced off
Bounce(s, moved, i, P, x, y) ==
    IF P = {}
    THEN [s EXCEPT !.asteroids = moved]
    ELSE Rebound(s, moved, i, Least(P),
                 Elastic(moved[i], moved[Least(P)]), x, y)

\* lines 212-215: asteroid i moves by (x, y)
Moved(as, i, x, y) ==
    [as EXCEPT ![i].x = wrap(@ + x), ![i].y = wrap(@ + y)]

MoveBy(s, i, x, y) ==
    Bounce(s, Moved(s.asteroids, i, x, y), i,
           Partners(Moved(s.asteroids, i, x, y), i), x, y)

\* lines 209-249: asteroid i moves, bounces off its first partner and then
\* steps back
MoveAsteroid(s, i, dt) ==
    MoveBy(s, i, TimesDt(s.asteroids[i].vx, dt), TimesDt(s.asteroids[i].vy, dt))

\* lines 251-253: asteroid a touches the player's centre or one of the tips
TouchesPlayer(a, p, tips) ==
    \/ sphereCollides(a.x, a.y, a.radius, p.x, p.y, 0)
    \/ sphereCollides(a.x, a.y, a.radius, tips.x1, tips.y1, 0)
    \/ sphereCollides(a.x, a.y, a.radius, tips.x2, tips.y2, 0)

\* lines 255-259: a life is lost; the last one ends the round, any other
\* starts the immunity
LoseLife(s, l) ==
    [s EXCEPT !.lives = l,
              !.playing = IF l = 0 THEN FALSE ELSE @,
              !.invincibility = IF l = 0 THEN @ ELSE INVINCIBLE_TIME,
              !.log.playerHits = @ + 1]

\* a faulty HitPlayer, for the sensitivity of C13: the immunity is not tested
HitPlayerAlways(s, i, tips) ==
    IF TouchesPlayer(s.asteroids[i], s.player, tips)
    THEN LoseLife(s, s.lives - 1)
    ELSE s

\* lines 251-260: asteroid i against the player
HitPlayer(s, i, tips) ==
    IF s.invincibility <= 0 /\ TouchesPlayer(s.asteroids[i], s.player, tips)
    THEN LoseLife(s, s.lives - 1)
    ELSE s

\* lines 207-261: the loop from asteroid i on
RECURSIVE AsteroidLoop(_, _, _, _)
AsteroidLoop(s, i, dt, tips) ==
    IF i > Len(s.asteroids)
    THEN s
    ELSE AsteroidLoop(HitPlayer(MoveAsteroid(s, i, dt), i, tips), i + 1, dt, tips)

-----------------------------------------------------------------------------
(* update: the bullet loop, lines 262-323 *)

\* seq[i] = seq[seq.length - 1]; seq.pop()
SwapPop(seq, i) ==
    SubSeq([seq EXCEPT ![i] = seq[Len(seq)]], 1, Len(seq) - 1)

\* lines 268-276: one of the 20 sub-samples of bullet b's last segment,
\* clamped, touches asteroid a
BulletTouches(b, a) ==
    \E k \in 0..(SUBSTEPS - 1) :
        sphereCollides(clamp(lerp(b.x, b._x, k)), clamp(lerp(b.y, b._y, k)),
                       Px(1), a.x, a.y, a.radius)

\* lines 287-291: the children take the parent's velocity turned and halved
Children(c1, n2, a) ==
    [a1 |-> [c1 EXCEPT !.vx = Quot(a.vy, 2), !.vy = -Quot(a.vx, 2)],
     a2 |-> [n2.a EXCEPT !.vx = -Quot(a.vy, 2), !.vy = Quot(a.vx, 2)],
     s |-> n2.s]

\* line 289: the second child, after the first one's draws
SplitSecond(n1, a, px, py) ==
    Children(n1.a,
             NewAsteroid(n1.s, -Quot(px, 2) + a.x, -Quot(py, 2) + a.y,
                         Quot(a.radius, 2)),
             a)

\* a faulty SplitAt, for the sensitivity of C20: the children are created
\* with the parent's radius, not with half of it
SplitAtFullSize(s, a, px, py) ==
    Children(NewAsteroid(s, Quot(px, 2) + a.x, Quot(py, 2) + a.y,
                         a.radius).a,
             NewAsteroid(NewAsteroid(s, Quot(px, 2) + a.x, Quot(py, 2) + a.y,
                                     a.radius).s,
                         -Quot(px, 2) + a.x, -Quot(py, 2) + a.y, a.radius),
             a)

\* line 286: the first child
SplitAt(s, a, px, py) ==
    SplitSecond(NewAsteroid(s, Quot(px, 2) + a.x, Quot(py, 2) + a.y,
                            Quot(a.radius, 2)),
                a, px, py)

\* lines 284-285: p, across the bullet's direction
SplitAlong(s, a, angle) ==
    SplitAt(s, a, Trig(Cos(angle + PI \div 2), a.radius),
            Trig(Sin(angle + PI \div 2), a.radius))

\* lines 281-291: the two children of asteroid a hit by bullet b, and the
\* state after their six draws
Split(s, a, b) == SplitAlong(s, a, Atan2(b.y - b._y, b.x - b._x))

\* a faulty Refill, for the sensitivity of C10: the level is not incremented
RefillSameLevel(t) ==
    IF Len(t.asteroids) = 0 THEN fillAsteroids(t) ELSE t

\* lines 297-301: an empty field is refilled a level up
Refill(t) ==
    IF Len(t.asteroids) = 0
    THEN fillAsteroids([t EXCEPT !.level = @ + 1])
    ELSE t

\* lines 295-296: asteroid j is replaced by the last one, which is popped
RemoveAsteroid(s, j) == [s EXCEPT !.asteroids = SwapPop(@, j)]

\* a faulty SplitAsteroid, for the sensitivity of C17: both children are
\* pushed and the parent keeps its slot
SplitAsteroidAtEnd(j, c) ==
    [c.s EXCEPT !.asteroids = Append(Append(@, c.a1), c.a2)]

\* lines 292-293: the first child takes the parent's slot, the second is pushed
SplitAsteroid(j, c) ==
    [c.s EXCEPT !.asteroids = Append([@ EXCEPT ![j] = c.a1], c.a2)]

\* history: bullet i of state s has hit asteroid j, giving state t; after is
\* the collection once line 293 or line 296 has run, before any refill
LogHit(t, s, i, j, children, after) ==
    [t EXCEPT !.log.hits =
        Append(@, [bullet |-> s.bullets[i].id, slot |-> j,
                   parent |-> s.asteroids[j], children |-> children,
                   refilled |-> t.level # s.level, before |-> s.asteroids,
                   after |-> after])]

\* lines 292-293, with the history
Replaced(t, s, i, j, c) == LogHit(t, s, i, j, <<c.a1, c.a2>>, t.asteroids)

HitSplit(s, i, j, c) == Replaced(SplitAsteroid(j, c), s, i, j, c)

\* lines 297-301, with the history: p is the state after lines 295-296
Removed(p, s, i, j) == LogHit(Refill(p), s, i, j, <<>>, p.asteroids)

\* line 272
Scored(s) == [s EXCEPT !.score = @ + HIT_SCORE]

\* lines 272-302: bullet i has hit asteroid j
HitAsteroid(s, i, j) ==
    IF s.asteroids[j].radius > SPLIT_RADIUS
    THEN HitSplit(s, i, j, Split(Scored(s), s.asteroids[j], s.bullets[i]))
    ELSE Removed(RemoveAsteroid(Scored(s), j), s, i, j)

\* lines 308-316: bullet b advances; it is marked once it is out of [0,255]
Marked(b) ==
    [b EXCEPT !.remove = @ \/ b.x < 0 \/ b.x > Px(255)
                           \/ b.y < 0 \/ b.y > Px(255)]

AdvanceBullet(b, dt) ==
    Marked([b EXCEPT !._x = b.x, !._y = b.y,
                     !.x = @ + TimesDt(b.vx * BULLET_SPEED, dt),
                     !.y = @ + TimesDt(b.vy * BULLET_SPEED, dt)])

\* a faulty FinishBullet, for the sensitivity of C11: a hit does not remove
\* the bullet
FinishBulletKeepingHit(t, b, i, dt, hit) ==
    [t EXCEPT
        !.bullets = IF b.remove
                    THEN SwapPop([@ EXCEPT ![i] = AdvanceBullet(b, dt)], i)
                    ELSE [@ EXCEPT ![i] = AdvanceBullet(b, dt)],
        !.log.tested = Append(@, b.id),
        !.log.advanced = Append(@, b.id)]

\* lines 308-322: bullet i (b at the start of the iteration) advances and,
\* if it hit or was marked before this frame, is replaced by the last bullet
FinishBullet(t, b, i, dt, hit) ==
    [t EXCEPT
        !.bullets = IF hit \/ b.remove
                    THEN SwapPop([@ EXCEPT ![i] = AdvanceBullet(b, dt)], i)
                    ELSE [@ EXCEPT ![i] = AdvanceBullet(b, dt)],
        !.log.tested = Append(@, b.id),
        !.log.advanced = Append(@, b.id)]

\* lines 265-307: the asteroids bullet i touches
Targets(s, i) ==
    {j \in 1..Len(s.asteroids) : BulletTouches(s.bullets[i], s.asteroids[j])}

\* lines 264-322: bullet i hits the first asteroid it touches, in index order
StepOn(s, i, dt, H) ==
    FinishBullet(IF H = {} THEN s ELSE HitAsteroid(s, i, Least(H)),
                 s.bullets[i], i, dt, H # {})

StepBullet(s, i, dt) == StepOn(s, i, dt, Targets(s, i))

\* lines 262-323: the loop from index i on; bullets.length is read anew at
\* every iteration
RECURSIVE BulletLoop(_, _, _)
BulletLoop(s, i, dt) ==
    IF i > Len(s.bullets)
    THEN s
    ELSE BulletLoop(StepBullet(s, i, dt), i + 1, dt)

-----------------------------------------------------------------------------
(* update: the player, lines 325-349 *)

\* Math.PI * deltaTime
TurnBy(dt) == Quot(PI * dt, 1000)

\* lines 325-326: the heading after left and right
Turn(s, dt) ==
    [s EXCEPT !.player.dir = @ + (IF s.input.left THEN TurnBy(dt) ELSE 0)
                               - (IF s.input.right THEN TurnBy(dt) ELSE 0)]

\* lines 327-331: thrust along the heading
Thrust(s, dt) ==
    IF s.input.up
    THEN [s EXCEPT
            !.player.vx = @ + TimesDt(Trig(Cos(s.player.dir), PLAYER_SPEED), dt),
            !.player.vy = @ - TimesDt(Trig(Sin(s.player.dir), PLAYER_SPEED), dt)]
    ELSE s

\* a faulty Fire, for the sensitivity of C16: the snapshot is not consulted
FireWhileHeld(s) ==
    IF s.input.fire
    THEN [s EXCEPT
            !.bullets = Append(@, Bullet(s.player.x, s.player.y, s.player.dir,
                                         s.nextId + 1)),
            !.nextId = @ + 1]
    ELSE s

\* lines 332-336: a rising edge of fire adds a bullet
Fire(s) ==
    IF s.input.fire /\ ~s.input._fire
    THEN [s EXCEPT
            !.bullets = Append(@, Bullet(s.player.x, s.player.y, s.player.dir,
                                         s.nextId + 1)),
            !.nextId = @ + 1]
    ELSE s

\* lines 337-341: a rising edge of down teleports the player
Teleport(s) ==
    IF s.input.down /\ ~s.input._down
    THEN [Advance(s, 2) EXCEPT !.player.x = RandomCoord(TapeAt(s, 0)),
                               !.player.y = RandomCoord(TapeAt(s, 1))]
    ELSE s

\* lines 343-346: the player moves; the wrap is written out in the source
MovePlayer(s, dt) ==
    [s EXCEPT
        !.player.x = Rem(@ + TimesDt(s.player.vx, dt) + WORLD, WORLD),
        !.player.y = Rem(@ + TimesDt(s.player.vy, dt) + WORLD, WORLD)]

\* lines 348-349: the snapshots for the next frame's edges
Snapshot(s) ==
    [s EXCEPT !.input._fire = s.input.fire, !.input._down = s.input.down]

-----------------------------------------------------------------------------
(* update, lines 175-352 *)

\* lines 197-200
Cool(s, dt) ==
    IF s.invincibility > 0 THEN [s EXCEPT !.invincibility = @ - dt] ELSE s

\* lines 197-349: a frame that starts with playing set
PlayFrame(s, dt) ==
    Snapshot(MovePlayer(Teleport(Fire(Thrust(Turn(
        BulletLoop(AsteroidLoop(Cool(s, dt), 1, dt, Tips(s.player)), 1, dt),
        dt), dt))), dt))

\* line 193: the snapshot of a frame that starts with playing cleared
SnapFire(s) == [s EXCEPT !.input._fire = s.input.fire]

\* a faulty OverFrame, for the sensitivity of C8: fire restarts the game
\* whether or not it was set in the previous frame
OverFrameOnFire(s) ==
    IF s.input.fire
    THEN SnapFire(init([s EXCEPT !.log = EmptyLog("restart")]))
    ELSE SnapFire(s)

\* lines 185-195: a frame that starts with playing cleared; line 193 runs
\* after init() and snapshots the new input
OverFrame(s) ==
    IF s.input.fire /\ ~s.input._fire
    THEN SnapFire(init([s EXCEPT !.log = EmptyLog("restart")]))
    ELSE SnapFire(s)

\* the value of a variable never assigned and of an argument not given
Undefined == -1

\* lines 177-183: deltaTime, in ms; a difference with undefined is NaN, which
\* line 183 turns into 0
FrameDt(s, elapsedTime) ==
    IF s.deltaTime = -1000 THEN 0
    ELSE IF elapsedTime = Undefined \/ s._elapsedTime = Undefined THEN 0
    ELSE elapsedTime - s._elapsedTime

\* lines 185-351
RunFrame(s) ==
    IF ~s.playing
    THEN OverFrame([s EXCEPT !.log = EmptyLog("over")])
    ELSE PlayFrame([s EXCEPT !.log = EmptyLog("play")], s.deltaTime)

\* function update(elapsedTime)
updateState(s, elapsedTime) ==
    RunFrame([s EXCEPT !.deltaTime = FrameDt(s, elapsedTime),
                       !._elapsedTime = elapsedTime])

\* function keydown(event), lines 457-464, and keyup(event), lines 470-477
setKey(s, key, v) ==
    [s EXCEPT !.input =
        [@ EXCEPT !.left = IF key = "ArrowLeft" THEN v ELSE @,
                  !.right = IF key = "ArrowRight" THEN v ELSE @,
                  !.up = IF key = "ArrowUp" THEN v ELSE @,
                  !.down = IF key = "ArrowDown" THEN v ELSE @,
                  !.fire = IF key = " " \/ key = "z" THEN v ELSE @]]

-----------------------------------------------------------------------------
(* The state machine *)

MaxFrames == 3
MaxKeys == 1

\* the keys the host may report; "x" is mapped to no flag
Keys == {"ArrowLeft", "ArrowRight", "ArrowUp", "ArrowDown", " ", "z", "x"}

\* the gaps between two frames the free host may produce (ms)
DTs == {25, 3000}

\* the gaps of the scripts' frames
ScriptGaps ==
    UNION {{Scenarios[i].script[n].gap : n \in DOMAIN Scenarios[i].script} :
            i \in DOMAIN Scenarios}

Script == Scenarios[env.sc].script

\* the host may deliver event e now, once the page's script has run to its
\* end (env.pc > 0): the opening script's next event, or after it any event
\* within the budgets
Due(e) ==
    /\ env.pc > 0
    /\ IF env.pc <= Len(Script)
       THEN e = Script[env.pc]
       ELSE IF e.type = "frame"
            THEN e.gap \in DTs /\ env.frames < MaxFrames
            ELSE env.keys < MaxKeys

Delivered(e) ==
    IF env.pc <= Len(Script)
    THEN [env EXCEPT !.pc = @ + 1]
    ELSE IF e.type = "frame"
         THEN [env EXCEPT !.frames = @ + 1]
         ELSE [env EXCEPT !.keys = @ + 1]

\* the program's variables take the values of record s
Becomes(s) ==
    /\ deltaTime' = s.deltaTime
    /\ _elapsedTime' = s._elapsedTime
    /\ invincibility' = s.invincibility
    /\ input' = s.input
    /\ score' = s.score
    /\ lives' = s.lives
    /\ level' = s.level
    /\ playing' = s.playing
    /\ player' = s.player
    /\ bullets' = s.bullets
    /\ asteroids' = s.asteroids
    /\ tape' = s.tape
    /\ rnd' = s.rnd
    /\ nextId' = s.nextId
    /\ log' = s.log

Is(s) ==
    /\ deltaTime = s.deltaTime
    /\ _elapsedTime = s._elapsedTime
    /\ invincibility = s.invincibility
    /\ input = s.input
    /\ score = s.score
    /\ lives = s.lives
    /\ level = s.level
    /\ playing = s.playing
    /\ player = s.player
    /\ bullets = s.bullets
    /\ asteroids = s.asteroids
    /\ tape = s.tape
    /\ rnd = s.rnd
    /\ nextId = s.nextId
    /\ log = s.log

NoCall == [fn |-> "none", args |-> <<>>, value |-> 0, truth |-> FALSE]

\* before init() runs nothing is defined; init() sets all but _elapsedTime
Blank(sc) ==
    [deltaTime |-> 0, _elapsedTime |-> Undefined, invincibility |-> 0,
     input |-> NoInput, score |-> 0, lives |-> 0, level |-> 0,
     playing |-> FALSE,
     player |-> [x |-> 0, y |-> 0, vx |-> 0, vy |-> 0, dir |-> 0],
     bullets |-> <<>>, asteroids |-> <<>>, tape |-> Scenarios[sc].tape,
     rnd |-> 1, nextId |-> 0, log |-> EmptyLog("init")]

\* the state after the call of init() that ends the page's script, line 487
Init ==
    \E sc \in DOMAIN Scenarios :
        /\ Is(init(Blank(sc)))
        /\ env = [sc |-> sc, pc |-> 0, frames |-> 0, keys |-> 0]
        /\ call = NoCall

\* line 488: the page's script calls update() itself, without a timestamp
load ==
    /\ env.pc = 0
    /\ Becomes(updateState(State, Undefined))
    /\ env' = [env EXCEPT !.pc = 1]
    /\ UNCHANGED call

\* the timestamp of the previous frame; the page loads at time 0
Clock == IF _elapsedTime = Undefined THEN 0 ELSE _elapsedTime

\* the host reports a key pressed
keydown(key) ==
    /\ Due(KeyDown(key))
    /\ Becomes(setKey([State EXCEPT !.log = EmptyLog("keydown")], key, TRUE))
    /\ env' = Delivered(KeyDown(key))
    /\ UNCHANGED call

\* the host reports a key released
keyup(key) ==
    /\ Due(KeyUp(key))
    /\ Becomes(setKey([State EXCEPT !.log = EmptyLog("keyup")], key, FALSE))
    /\ env' = Delivered(KeyUp(key))
    /\ UNCHANGED call

\* the host runs the frame callback gap ms after the previous frame
update(gap) ==
    /\ Due(Frame(gap))
    /\ Becomes(updateState(State, Clock + gap))
    /\ env' = Delivered(Frame(gap))
    /\ UNCHANGED call

Next ==
    \/ load
    \/ \E key \in Keys : keydown(key)
    \/ \E key \in Keys : keyup(key)
    \/ \E gap \in DTs \cup ScriptGaps : update(gap)

Spec == Init /\ [][Next]_vars

-----------------------------------------------------------------------------
(* The pure functions, called on their own *)

WrapReach == 600

\* the arguments of wrap: every half pixel from -WrapReach to WrapReach pixels
WrapInputs == {n * 5 : n \in (-2 * WrapReach)..(2 * WrapReach)}

\* the centre coordinates, in [0,256), and the radii given to sphereCollides
Coords == {0, 5, 10, 640, 1270, 1280, 1290, 2000, 2545, 2550, 2559}
Rows == {0, 1280, 2550}
Radii == {0, 10, 200}

InitFn ==
    /\ Is(init(Blank(1)))
    /\ env = [sc |-> 1, pc |-> 0, frames |-> 0, keys |-> 0]
    /\ call = NoCall

\* wrap(x) is called, once in a behaviour
wrapCall ==
    \E x \in WrapInputs :
        /\ call = NoCall
        /\ call' = [fn |-> "wrap", args |-> <<x>>, value |-> wrap(x),
                    truth |-> FALSE]
        /\ UNCHANGED <<deltaTime, _elapsedTime, invincibility, input, score,
                       lives, level, playing, player, bullets, asteroids, tape,
                       rnd, nextId, log, env>>

\* sphereCollides(x1, y1, r1, x2, y2, r2) is called, once in a behaviour
sphereCollidesCall ==
    \E x1 \in Coords, x2 \in Coords, y1 \in Rows, y2 \in Rows,
       r1 \in Radii, r2 \in Radii :
        /\ call = NoCall
        /\ call' = [fn |-> "sphereCollides",
                    args |-> <<x1, y1, r1, x2, y2, r2>>,
                    value |-> 0,
                    truth |-> sphereCollides(x1, y1, r1, x2, y2, r2)]
        /\ UNCHANGED <<deltaTime, _elapsedTime, invincibility, input, score,
                       lives, level, playing, player, bullets, asteroids, tape,
                       rnd, nextId, log, env>>

\* the radii and the velocity components of the asteroids given to the
\* elastic collision
Sizes == {49, 140, 170, 199}
Speeds == {-230, -7, 0, 19, 230}
Bodies == [x : {0}, y : {0}, radius : Sizes, vx : Speeds, vy : Speeds]

\* the elastic collision of lines 227-237 is computed, once in a behaviour
elasticCall ==
    \E a \in Bodies, b \in Bodies :
        /\ call = NoCall
        /\ call' = [fn |-> "elastic", args |-> <<a, b>>,
                    value |-> Elastic(a, b), truth |-> FALSE]
        /\ UNCHANGED <<deltaTime, _elapsedTime, invincibility, input, score,
                       lives, level, playing, player, bullets, asteroids, tape,
                       rnd, nextId, log, env>>

NextFn == wrapCall \/ sphereCollidesCall \/ elasticCall

SpecFn == InitFn /\ [][NextFn]_vars

-----------------------------------------------------------------------------
(* Properties *)

\* the kinds of step that are frames
FrameKinds == {"play", "over", "restart"}

\* C1: in every reachable state lives is in 0..3 and playing is false exactly
\* when lives = 0; in particular a frame that starts with lives = 1 and in
\* which several asteroids hit the player ends with lives = 0, not below.
C1_LivesInRange ==
    /\ lives \in 0..START_LIVES
    /\ ~playing <=> lives = 0

\* C2: wrap(x) lies in [0,256) for every x, also for x < -256 and x >= 256,
\* and wrap(wrap(x)) = wrap(x).
C2_WrapInWorld ==
    call.fn = "wrap" =>
        /\ 0 <= call.value /\ call.value < WORLD
        /\ wrap(call.value) = call.value

\* the minimum-image distance of two coordinates on a circle of 256 pixels
torusDelta(a, b) ==
    IF Abs(b - a) > Px(128) THEN Px(256) - Abs(b - a) ELSE Abs(b - a)

\* C3: for centres in [0,256) and radii >= 0, sphereCollides is true iff
\* dx^2 + dy^2 <= (r1+r2)^2, each per-axis distance being d = |b-a|, replaced
\* by 256-d when d > 128.
C3_MinimumImage ==
    call.fn = "sphereCollides" =>
        (call.truth <=>
            torusDelta(call.args[1], call.args[4]) * torusDelta(call.args[1], call.args[4])
            + torusDelta(call.args[2], call.args[5]) * torusDelta(call.args[2], call.args[5])
            <= (call.args[3] + call.args[6]) * (call.args[3] + call.args[6]))

\* C4: at the end of every frame that runs in the Playing state, player.x and
\* player.y are in [0,256).
C4_PlayerInWorld ==
    log.kind = "play" =>
        /\ 0 <= player.x /\ player.x < WORLD
        /\ 0 <= player.y /\ player.y < WORLD

\* the hits of the last step that split their asteroid
Splits == {n \in DOMAIN log.hits : log.hits[n].children # <<>>}

\* the children's centres are symmetric about the parent's centre
Symmetric(h) ==
    /\ h.children[1].x + h.children[2].x = 2 * h.parent.x
    /\ h.children[1].y + h.children[2].y = 2 * h.parent.y

\* C5 (as stated): when a bullet hit splits an asteroid (radius > 5), both
\* children have exactly half the parent's radius and their centres are
\* symmetric about the parent's centre.
C5_ChildrenHalf ==
    \A n \in DOMAIN log.hits :
        log.hits[n].parent.radius > SPLIT_RADIUS =>
            /\ Len(log.hits[n].children) = 2
            /\ \A c \in 1..2 :
                  log.hits[n].children[c].radius
                      = Quot(log.hits[n].parent.radius, 2)
            /\ Symmetric(log.hits[n])

\* C5 (amended): an asteroid hit by a bullet splits exactly when its radius
\* is > 5; each child's radius is drawn between 0.7 and 1.0 times half the
\* parent's radius, 1.0 excluded (to the rounding of the grid), and the
\* children's centres are symmetric about the parent's centre.
C5_ChildrenBelowHalf ==
    \A n \in DOMAIN log.hits :
        /\ log.hits[n].parent.radius > SPLIT_RADIUS <=> n \in Splits
        /\ n \in Splits =>
            /\ Len(log.hits[n].children) = 2
            /\ \A c \in 1..2 :
                  /\ 10 * log.hits[n].children[c].radius
                        > 7 * Quot(log.hits[n].parent.radius, 2) - 10
                  /\ log.hits[n].children[c].radius
                        < Quot(log.hits[n].parent.radius, 2)
            /\ Symmetric(log.hits[n])

\* a frame has just split an asteroid
C5_Witness == log.kind = "play" /\ Splits # {}

\* line 313: the bullet is out of [0,255] on an axis
Outside(b) == b.x < 0 \/ b.x > Px(255) \/ b.y < 0 \/ b.y > Px(255)

\* the identities of a sequence of bullets
Ids(bs) == {bs[i].id : i \in DOMAIN bs}

\* C6: a bullet that is outside [0,255] on either axis at the end of a Playing
\* frame is no longer in the collection at the end of the next Playing frame.
C6_OutsideBulletGone ==
    [][log'.kind = "play" =>
          \A i \in DOMAIN bullets :
              Outside(bullets[i]) => bullets[i].id \notin Ids(bullets')]_vars

\* the state a restart leaves
Fresh ==
    /\ playing
    /\ score = 0
    /\ lives = 3
    /\ level = 0
    /\ invincibility = 0
    /\ bullets = <<>>
    /\ player.x = Px(128) /\ player.y = Px(128)
    /\ player.vx = 0 /\ player.vy = 0
    /\ Len(asteroids) = 10

\* C7: in the GameOver state a frame with a fire rising edge leaves playing
\* set, score 0, lives 3, level 0, invincibility 0, no bullets, the player at
\* rest at (128,128) and exactly 10 asteroids.
C7_RestartResets ==
    [][(~playing /\ input.fire /\ ~input._fire /\ log'.kind \in FrameKinds)
          => Fresh']_vars

\* a frame has just restarted a game that was over
C7_Witness == log.kind = "restart" /\ playing /\ Len(asteroids) = 10

\* C8: while playing is false, a frame without a fire rising edge leaves score,
\* lives, level, invincibility, the player, the asteroids and the bullets
\* unchanged and playing false; every frame ends with the snapshot _fire equal
\* to fire, so a key held since before the game ended shows no edge until it
\* is released and pressed again.
C8_GameOverFrozen ==
    [][log'.kind \in FrameKinds =>
          /\ input'._fire = input'.fire
          /\ (~playing /\ ~(input.fire /\ ~input._fire)) =>
                /\ UNCHANGED <<score, lives, level, invincibility, player,
                               asteroids, bullets>>
                /\ ~playing']_vars

\* a frame has just run in the GameOver state with fire held, without restart
C8_Witness == log.kind = "over" /\ ~playing /\ input.fire /\ input._fire

\* C9: right after fillAsteroids returns, at init and at every level-up, the
\* collection holds exactly 10 + 2*level asteroids, no two of them collide
\* under the circle test with their actual radii, and none collides with the
\* zone of radius 30 around the player.
C9_FillSeparated ==
    \A n \in DOMAIN log.fills :
        /\ Len(log.fills[n].asteroids) = 10 + 2 * log.fills[n].level
        /\ \A i, j \in DOMAIN log.fills[n].asteroids :
              i # j =>
                ~sphereCollides(log.fills[n].asteroids[i].x,
                                log.fills[n].asteroids[i].y,
                                log.fills[n].asteroids[i].radius,
                                log.fills[n].asteroids[j].x,
                                log.fills[n].asteroids[j].y,
                                log.fills[n].asteroids[j].radius)
        /\ \A i \in DOMAIN log.fills[n].asteroids :
              ~sphereCollides(log.fills[n].px, log.fills[n].py, Px(30),
                              log.fills[n].asteroids[i].x,
                              log.fills[n].asteroids[i].y,
                              log.fills[n].asteroids[i].radius)

\* fillAsteroids has just returned at a level-up
C9_Witness ==
    \E n \in DOMAIN log.fills :
        log.fills[n].level = 1 /\ Len(log.fills[n].asteroids) = 12

\* the hits of the last step that removed the last asteroid
LastRemoved(l) ==
    {n \in DOMAIN l.hits :
        Len(l.hits[n].before) = 1 /\ l.hits[n].children = <<>>}

\* C10: whenever a bullet hit removes the last asteroid, level goes up by
\* exactly one and the field is refilled within the same frame, so that the
\* collection is never empty at the end of a frame; level changes in no other
\* way while Playing.
C10_LevelUp ==
    /\ [](asteroids # <<>>)
    /\ [][log'.kind = "play" =>
            /\ level' = level + Cardinality(LastRemoved(log'))
            /\ Len(log'.fills) = Cardinality(LastRemoved(log'))
            /\ \A n \in DOMAIN log'.fills :
                  /\ log'.fills[n].level = level + n
                  /\ log'.fills[n].asteroids # <<>>]_vars

\* a frame has just removed the last asteroid of level 0
C10_Witness ==
    log.kind = "play" /\ LastRemoved(log) # {} /\ level = 1
        /\ Len(asteroids) >= 12

\* C11: a bullet scores at most one hit per frame: a frame that runs the
\* bullet loop raises score by exactly 10 times the number of bullets that
\* registered a hit, each such bullet hits exactly one asteroid and is out of
\* the collection at the end of that frame; score is always a non-negative
\* multiple of 10.
C11_OneHitPerBullet ==
    /\ [](score >= 0 /\ score % 10 = 0)
    /\ [][log'.kind = "play" =>
            /\ score' = score + 10 * Len(log'.hits)
            /\ \A m, n \in DOMAIN log'.hits :
                  m # n => log'.hits[m].bullet # log'.hits[n].bullet
            /\ \A n \in DOMAIN log'.hits :
                  /\ log'.hits[n].bullet \in Ids(bullets)
                  /\ log'.hits[n].bullet \notin Ids(bullets')
                  /\ log'.hits[n].slot \in DOMAIN log'.hits[n].before
                  /\ log'.hits[n].parent
                        = log'.hits[n].before[log'.hits[n].slot]]_vars

\* a frame has just scored a hit
C11_Witness == log.kind = "play" /\ Len(log.hits) = 1 /\ score >= 10

\* the momentum on one axis of masses m1, m2 with velocities v1, v2
Momentum(m1, v1, m2, v2) == m1 * v1 + m2 * v2

\* the mass of an asteroid, line 227
Mass(a) == a.radius * a.radius

\* C12: the elastic collision conserves momentum on each axis: with masses
\* m1 = r1^2, m2 = r2^2, m1*v1 + m2*v2 = m1*v1' + m2*v2', to the rounding of
\* the two new velocities (less than one unit of the grid each).
C12_MomentumConserved ==
    call.fn = "elastic" =>
        /\ Abs(Momentum(Mass(call.args[1]), call.args[1].vx,
                        Mass(call.args[2]), call.args[2].vx)
               - Momentum(Mass(call.args[1]), call.value.v1x,
                          Mass(call.args[2]), call.value.v2x))
              < Mass(call.args[1]) + Mass(call.args[2])
        /\ Abs(Momentum(Mass(call.args[1]), call.args[1].vy,
                        Mass(call.args[2]), call.args[2].vy)
               - Momentum(Mass(call.args[1]), call.value.v1y,
                          Mass(call.args[2]), call.value.v2y))
              < Mass(call.args[1]) + Mass(call.args[2])

\* two asteroids of different masses and velocities have collided
C12_Witness ==
    /\ call.fn = "elastic"
    /\ call.args[1].radius # call.args[2].radius
    /\ call.args[1].vx # call.args[2].vx
    /\ call.value.v1x # call.args[1].vx
    /\ call.value.v2x # call.args[2].vx

\* lines 197-200: the immunity left once a frame of dt ms has counted it down
Cooled(inv, dt) == IF inv > 0 THEN inv - dt ELSE inv

\* C13: no life is lost while invincibility > 0: a frame takes a life only
\* if the immunity, counted down by the frame's deltaTime, has run out; a hit
\* that leaves lives > 0 takes one life, is the only hit of its frame and sets
\* invincibility to 3 s; from then on invincibility only goes down, by the
\* non-negative deltaTime of each frame, and nothing but a frame changes it
\* or lives.
C13_NoHitWhileImmune ==
    [][/\ log'.kind = "play" =>
            /\ deltaTime' >= 0
            /\ lives' <= lives
            /\ lives' < lives => Cooled(invincibility, deltaTime') <= 0
            /\ (lives' < lives /\ lives' > 0) =>
                  /\ lives' = lives - 1
                  /\ log'.playerHits = 1
                  /\ invincibility' = 3000
            /\ lives' = lives =>
                  /\ log'.playerHits = 0
                  /\ invincibility' = Cooled(invincibility, deltaTime')
       /\ log'.kind \notin {"play", "restart"} =>
            UNCHANGED <<lives, invincibility>>
       /\ log'.kind = "restart" => ~playing]_vars

\* a frame has just run in which an asteroid touches the player, who is
\* immune and keeps the lives left
C13_Witness ==
    /\ log.kind = "play" /\ log.playerHits = 0
    /\ invincibility > 0 /\ lives > 0 /\ lives < 3
    /\ \E i \in DOMAIN asteroids :
          TouchesPlayer(asteroids[i], player, Tips(player))

\* the number of times v occurs in the sequence seq
Count(seq, v) == Cardinality({n \in DOMAIN seq : seq[n] = v})

\* C14: in every frame that starts in the Playing state, each bullet present
\* at the start of the frame is tested against the asteroids and, if it is
\* still in the collection at the end of the frame, has been advanced exactly
\* once (previous position stored, position moved), also when other bullets
\* are removed in the same frame.
C14_EveryBulletStepped ==
    [][(playing /\ log'.kind = "play") =>
          \A i \in DOMAIN bullets :
              /\ Count(log'.tested, bullets[i].id) = 1
              /\ bullets[i].id \in Ids(bullets') =>
                    /\ Count(log'.advanced, bullets[i].id) = 1
                    /\ \E j \in DOMAIN bullets' :
                          /\ bullets'[j].id = bullets[i].id
                          /\ bullets'[j]._x = bullets[i].x
                          /\ bullets'[j]._y = bullets[i].y]_vars

\* the collisions of the last step in which asteroid k took part
BumpsOf(k) == {n \in DOMAIN log.bumps : log.bumps[n].i = k \/ log.bumps[n].j = k}

\* C15 (as stated): within a frame no asteroid has its velocity updated by
\* more than one elastic collision, whether it is the asteroid being scanned
\* or the partner found by another asteroid's scan.
C15_OneBumpPerAsteroid ==
    \A k \in DOMAIN asteroids : Cardinality(BumpsOf(k)) <= 1

\* asteroids k and l of the sequence as collide
Collide(as, k, l) ==
    sphereCollides(as[k].x, as[k].y, as[k].radius,
                   as[l].x, as[l].y, as[l].radius)

\* C15 (amended): within a frame the scan of an asteroid processes one
\* collision at most, with the first other asteroid in index order that it
\* collides with; the scans come in index order, one per asteroid.  (The
\* velocity of an asteroid may still be updated several times in a frame: by
\* its own scan and as the partner of other scans.)
C15_FirstBumpPerScan ==
    /\ \A m, n \in DOMAIN log.bumps :
          m < n => log.bumps[m].i < log.bumps[n].i
    /\ \A n \in DOMAIN log.bumps :
          /\ log.bumps[n].j # log.bumps[n].i
          /\ Collide(log.bumps[n].among, log.bumps[n].i, log.bumps[n].j)
          /\ \A k \in 1..(log.bumps[n].j - 1) :
                k # log.bumps[n].i =>
                    ~Collide(log.bumps[n].among, log.bumps[n].i, k)

\* a frame has just updated the velocity of one asteroid in several collisions
C15_Witness ==
    /\ log.kind = "play"
    /\ \E k \in DOMAIN asteroids : Cardinality(BumpsOf(k)) >= 2

\* C16: a frame that starts with playing set adds a bullet iff fire is set
\* and the snapshot _fire of the previous frame is not; it adds one bullet at
\* most, the last of the collection, at the player's position and along the
\* player's heading, and it leaves the snapshot equal to fire, so that fire
\* held over the following frames adds no further bullet.
C16_BulletOnFireEdge ==
    [][log'.kind = "play" =>
          /\ nextId' = (IF input.fire /\ ~input._fire
                        THEN nextId + 1 ELSE nextId)
          /\ input'._fire = input.fire
          /\ input'.fire = input.fire
          /\ \A n \in DOMAIN bullets' : bullets'[n].id > nextId =>
                /\ n = Len(bullets')
                /\ bullets'[n].id = nextId'
                /\ bullets'[n] = Bullet(player.x, player.y, player'.dir,
                                        nextId')
          /\ nextId' > nextId => nextId' \in Ids(bullets')]_vars

\* a frame has found fire held since the frame that added the only bullet,
\* and has advanced that bullet without adding another
C16_Witness ==
    /\ log.kind = "play"
    /\ input.fire /\ input._fire
    /\ nextId = 1
    /\ log.advanced = <<1>>
    /\ Ids(bullets) = {1}

\* the asteroids of a collection, in any order
Members(seq) == {seq[n] : n \in DOMAIN seq}

\* as a multiset, collection after is collection before without one gone and
\* with the asteroids of new
Exchanged(before, after, gone, new) ==
    \A a \in Members(before) \cup Members(after) \cup Members(new) :
        Count(after, a) =
            Count(before, a) - (IF a = gone THEN 1 ELSE 0) + Count(new, a)

\* C17: a bullet hit on an asteroid of radius > 5 replaces it by exactly two
\* asteroids (one more asteroid), a hit on an asteroid of radius <= 5 removes
\* it and creates none (one asteroid less, before any refill); in both cases
\* every other asteroid is kept as it was, up to the order of the collection.
C17_HitExchanges ==
    \A n \in DOMAIN log.hits :
        /\ Len(log.hits[n].children) =
              (IF log.hits[n].parent.radius > SPLIT_RADIUS THEN 2 ELSE 0)
        /\ Len(log.hits[n].after) =
              Len(log.hits[n].before)
                  + (IF log.hits[n].parent.radius > SPLIT_RADIUS THEN 1 ELSE -1)
        /\ Exchanged(log.hits[n].before, log.hits[n].after,
                     log.hits[n].parent, log.hits[n].children)

\* a hit has removed a small asteroid that was not the last of the collection,
\* so that the order of the others has changed
C17_Witness ==
    /\ log.kind = "play"
    /\ \E n \in DOMAIN log.hits :
          /\ log.hits[n].parent.radius <= SPLIT_RADIUS
          /\ log.hits[n].slot < Len(log.hits[n].before)
          /\ log.hits[n].after # <<>>

\* the five flags the key events set
Flags(in) == <<in.left, in.right, in.up, in.down, in.fire>>

\* C18 (as stated): the flags left, right, up, down and fire are changed by
\* keydown and keyup events only; no frame, be it a Playing frame, a GameOver
\* frame or the frame whose init() restarts the game, modifies them, so that a
\* key held across a restart is still reported in the following frame.
C18_FramesKeepFlags ==
    [][log'.kind \in FrameKinds => Flags(input') = Flags(input)]_vars

\* C19 (as stated): at the end of every frame every asteroid of the
\* collection, whether placed by fillAsteroids, moved, reverted after a
\* collision or created by a split in that frame, has x and y in [0,256).
C19_AsteroidsInWorld ==
    \A n \in DOMAIN asteroids :
        /\ 0 <= asteroids[n].x /\ asteroids[n].x < WORLD
        /\ 0 <= asteroids[n].y /\ asteroids[n].y < WORLD

\* the greatest number of hits the lineage of an asteroid of radius r can
\* still take: an asteroid of radius <= 5 is removed by the next one
HitsLeft(r) ==
    IF r > 2 * SPLIT_RADIUS THEN 3 ELSE IF r > SPLIT_RADIUS THEN 2 ELSE 1

\* the greatest number of asteroids an asteroid of radius r can become
Weight(r) == IF r > 2 * SPLIT_RADIUS THEN 4 ELSE IF r > SPLIT_RADIUS THEN 2 ELSE 1

RECURSIVE TotalWeight(_)
TotalWeight(seq) ==
    IF seq = <<>> THEN 0 ELSE Weight(Head(seq).radius) + TotalWeight(Tail(seq))

\* C20: every radius is in (0,20]; a child's radius is at most half its
\* parent's, so that a hit leaves the children one hit less to take than the
\* parent had, an asteroid takes 3 hits at most along its lineage, and an
\* asteroid that has one hit left is removed by it; the collection never
\* holds more than 4 * (10 + 2*level) asteroids.
C20_SplittingTerminates ==
    /\ \A n \in DOMAIN asteroids :
          0 < asteroids[n].radius /\ asteroids[n].radius <= Px(20)
    /\ \A n \in DOMAIN log.hits :
          /\ HitsLeft(log.hits[n].parent.radius) = 1
                <=> log.hits[n].children = <<>>
          /\ \A c \in DOMAIN log.hits[n].children :
                /\ 2 * log.hits[n].children[c].radius
                      <= log.hits[n].parent.radius
                /\ HitsLeft(log.hits[n].children[c].radius)
                      < HitsLeft(log.hits[n].parent.radius)
    /\ TotalWeight(asteroids) <= 4 * (BASE_ASTEROIDS + 2 * level)
    /\ Len(asteroids) <= 4 * (BASE_ASTEROIDS + 2 * level)

\* the least radius a child of an asteroid placed by fillAsteroids can have
LeastChild == Quot(7 * Quot(Px(14), 2), 10)

\* a hit has removed an asteroid smaller than any child of an asteroid placed
\* by fillAsteroids: a grandchild, with the third hit of its lineage
C20_Witness ==
    /\ log.kind = "play"
    /\ \E n \in DOMAIN log.hits :
          /\ log.hits[n].children = <<>>
          /\ log.hits[n].parent.radius < LeastChild
    /\ Len(asteroids) > BASE_ASTEROIDS

=============================================================================
